---------------------------- MODULE Spec2Model ----------------------------
(***************************************************************************)
(* Model of src/main.py: the isolation-procedure search service.           *)
(*                                                                         *)
(* Python strings are TLA+ strings; a character is a string of length 1.   *)
(* Positions are 1-based: the Python offset p is the TLA+ position p + 1.  *)
(* Optional[str] is a tuple: <<>> is None and <<s>> is the string s.       *)
(* Characters outside ASCII are written with the stand-ins U00A0, U200B,   *)
(* U2003, U2009 and LDQUO below; no input of the model uses the stand-in  *)
(* characters for anything else.                                           *)
(***************************************************************************)
EXTENDS Naturals, Sequences, FiniteSets

VARIABLES
    payload,                    \* the Input of the last request (src/main.py:11-14)
    normalized_text,            \* search_isolation_procedure's local, line 280
    procedure_code_from_query,  \* its local, lines 299-309
    procedure_block_text,       \* its local, line 315
    response,                   \* what the handler returned or raised
    call,                       \* a helper function under test and its arguments
    ret                         \* the values that helper returned

vars == <<payload, normalized_text, procedure_code_from_query,
          procedure_block_text, response, call, ret>>

handler_vars == <<payload, normalized_text, procedure_code_from_query,
                  procedure_block_text, response>>

-----------------------------------------------------------------------------
(* Bounds of the model. *)

MaxRawLen == 4
MaxApply == 2
MaxDocLines == 3
MaxQueryWords == 3
MaxStepLines == 3

-----------------------------------------------------------------------------
(* Characters and character classes. *)

U00A0 == "~"
U200B == "|"
U2003 == "@"
U2009 == "#"
LDQUO == "{"

LowerAlpha == "abcdefghijklmnopqrstuvwxyz"
UpperAlpha == "ABCDEFGHIJKLMNOPQRSTUVWXYZ"

Ch(s, i) == SubSeq(s, i, i)

UpperCase == {Ch(UpperAlpha, i) : i \in 1..26}
LowerCase == {Ch(LowerAlpha, i) : i \in 1..26}
Digit == {"0", "1", "2", "3", "4", "5", "6", "7", "8", "9"}

\* What \s matches in a str pattern, and what str.strip() removes: U+200B is
\* not among them.
Whitespace == {" ", "\t", "\n", "\r", "\f", U00A0, U2003, U2009}

\* The class [U+00A0 U+200B U+2003 U+2009 \s] of line 55.
NormalizeClass == {U00A0, U200B, U2003, U2009} \cup Whitespace

ToUpperTable == [c \in LowerCase |->
                   Ch(UpperAlpha, CHOOSE i \in 1..26 : Ch(LowerAlpha, i) = c)]
ToLowerTable == [c \in UpperCase |->
                   Ch(LowerAlpha, CHOOSE i \in 1..26 : Ch(UpperAlpha, i) = c)]

UpperCh(c) == IF c \in LowerCase THEN ToUpperTable[c] ELSE c
LowerCh(c) == IF c \in UpperCase THEN ToLowerTable[c] ELSE c

\* str.upper() and str.lower(): character by character, the two halves of the
\* string apart.
RECURSIVE upper(_)
upper(s) ==
    IF Len(s) = 0 THEN ""
    ELSE IF Len(s) = 1 THEN UpperCh(s)
    ELSE LET h == Len(s) \div 2
         IN  upper(SubSeq(s, 1, h)) \o upper(SubSeq(s, h + 1, Len(s)))

RECURSIVE lower(_)
lower(s) ==
    IF Len(s) = 0 THEN ""
    ELSE IF Len(s) = 1 THEN LowerCh(s)
    ELSE LET h == Len(s) \div 2
         IN  lower(SubSeq(s, 1, h)) \o lower(SubSeq(s, h + 1, Len(s)))

Min(S) == CHOOSE x \in S : \A y \in S : x <= y
Max(S) == CHOOSE x \in S : \A y \in S : x >= y

Suffix(s, i) == SubSeq(s, i, Len(s))

\* The number of consecutive characters of s from position i that are in C.
RECURSIVE Run(_, _, _)
Run(s, i, C) ==
    IF i <= Len(s) /\ Ch(s, i) \in C THEN 1 + Run(s, i + 1, C) ELSE 0

\* str.strip()
strip(s) ==
    LET lead == Run(s, 1, Whitespace)
        Kept == {j \in (lead + 1)..Len(s) : Ch(s, j) \notin Whitespace}
    IN  IF Kept = {} THEN "" ELSE SubSeq(s, lead + 1, Max(Kept))

\* str.split(sep) for a separator of one character: the pieces, in order.
RECURSIVE split(_, _)
split(s, sep) ==
    LET At == {i \in 1..Len(s) : Ch(s, i) = sep}
    IN  IF At = {} THEN <<s>>
        ELSE <<SubSeq(s, 1, Min(At) - 1)>> \o split(Suffix(s, Min(At) + 1), sep)

\* sep.join(parts)
RECURSIVE join(_, _)
join(parts, sep) ==
    IF parts = <<>> THEN ""
    ELSE IF Len(parts) = 1 THEN parts[1]
    ELSE parts[1] \o sep \o join(Tail(parts), sep)

\* s matches the literal lit at position i.
LitAt(s, i, lit) ==
    i >= 1 /\ i + Len(lit) - 1 <= Len(s) /\ SubSeq(s, i, i + Len(lit) - 1) = lit

\* The same under re.IGNORECASE.
LitAtI(s, i, lit) ==
    /\ i >= 1
    /\ i + Len(lit) - 1 <= Len(s)
    /\ lower(SubSeq(s, i, i + Len(lit) - 1)) = lower(lit)

\* ^ under re.MULTILINE: the start of the string or just after a newline.
LineStart(s, i) == i = 1 \/ (i >= 2 /\ i <= Len(s) + 1 /\ Ch(s, i - 1) = "\n")

\* All strings of at most n characters of the alphabet A.
RECURSIVE StringsOver(_, _)
StringsOver(A, n) ==
    IF n = 0 THEN {""}
    ELSE LET P == StringsOver(A, n - 1) IN P \cup {p \o c : p \in P, c \in A}

-----------------------------------------------------------------------------
(* normalize_text_for_parsing, lines 43-62. *)

\* The re.sub of line 55, from position i on: every maximal run of characters
\* of the class becomes one space.
RECURSIVE sub_space_runs(_, _)
sub_space_runs(line, i) ==
    LET At == {j \in i..Len(line) : Ch(line, j) \in NormalizeClass}
    IN  IF At = {} THEN Suffix(line, i)
        ELSE LET j == Min(At)
             IN  SubSeq(line, i, j - 1) \o " "
                 \o sub_space_runs(line, j + Run(line, j, NormalizeClass))

\* Line 55: the substitution, then strip().
clean_line_strip_first(line) == sub_space_runs(strip(line), 1)

clean_line(line) == strip(sub_space_runs(line, 1))

\* Lines 52-57: the cleaned lines that are not empty, in order.
RECURSIVE cleaned_lines(_)
cleaned_lines(lines) ==
    IF lines = <<>> THEN <<>>
    ELSE LET line == clean_line(Head(lines))
         IN  (IF line # "" THEN <<line>> ELSE <<>>) \o cleaned_lines(Tail(lines))

\* re.sub(r'\n{2,}', '\n\n', text) of line 61, from position i on.
RECURSIVE sub_newline_runs(_, _)
sub_newline_runs(text, i) ==
    LET At == {j \in i..Len(text) : Run(text, j, {"\n"}) >= 2}
    IN  IF At = {} THEN Suffix(text, i)
        ELSE LET j == Min(At)
             IN  SubSeq(text, i, j - 1) \o "\n\n"
                 \o sub_newline_runs(text, j + Run(text, j, {"\n"}))

normalize_text_for_parsing(text) ==
    LET lines == split(text, "\n")
        cleaned_text == join(cleaned_lines(lines), "\n")
    IN  strip(sub_newline_runs(cleaned_text, 1))

-----------------------------------------------------------------------------
(* find_procedure_block, lines 65-93. *)

None == <<>>
Some(x) == <<x>>

\* sub occurs in s (Python: sub in s).
Contains(s, sub) == \E i \in 1..(Len(s) + 1) : LitAt(s, i, sub)
\* re.search of a literal under re.IGNORECASE.
ContainsI(s, sub) == Contains(lower(s), lower(sub))

\* The lookahead (?=\n\s*[A-Z]{3,}[0-9]{2,}|\Z) of line 81 at position k:
\* a newline, whitespace, 3 or more upper-case letters and 2 or more digits,
\* or the end of the text.
NextCodeAhead(text, k) ==
    \/ k = Len(text) + 1
    \/ /\ k <= Len(text)
       /\ Ch(text, k) = "\n"
       /\ LET j == k + 1 + Run(text, k + 1, Whitespace)
              u == Run(text, j, UpperCase)
          IN  u >= 3 /\ Run(text, j + u, Digit) >= 2

\* pattern.search(text) of lines 80-91. The match starts at the leftmost
\* occurrence of the code; \s* is greedy and takes the whole run of whitespace
\* after the code; .*? (re.DOTALL) then grows to the first position where the
\* lookahead holds. The lookahead holds at the end of the text, so the engine
\* never backtracks into \s*.
find_procedure_block(text, procedure_code) ==
    LET code == upper(strip(procedure_code))
        Starts == {i \in 1..(Len(text) + 1) : LitAt(text, i, code)}
    IN  IF Starts = {} THEN None
        ELSE LET i == Min(Starts)
                 a == i + Len(code)
                 b == a + Run(text, a, Whitespace)
                 k == Min({j \in b..(Len(text) + 1) : NextCodeAhead(text, j)})
             IN  Some(strip(SubSeq(text, i, k - 1)))

-----------------------------------------------------------------------------
(* parse_steps_from_text, lines 95-162. *)

\* The opening quotes of the classes of lines 140 and 144. The closing quote
\* after the group is optional and outside the group: it changes neither
\* whether the search matches nor what group 1 holds.
OpenQuote == {LDQUO, "\"", "'"}

\* ^\s*(\d+)\. at position s: the positions of the digits and of what
\* follows the period, or <<>> when it does not match there.
StepMarkerAt(text, s) ==
    LET p == s + Run(text, s, Whitespace)
        d == Run(text, p, Digit)
    IN  IF LineStart(text, s) /\ d >= 1 /\ LitAt(text, p + d, ".")
        THEN <<[digits |-> p, after |-> p + d + 1]>>
        ELSE <<>>

\* The lookahead (?=\n\s*\d+\.|\Z) of line 107 at position k.
NextStepAhead(text, k) ==
    \/ k = Len(text) + 1
    \/ /\ k <= Len(text)
       /\ Ch(text, k) = "\n"
       /\ LET j == k + 1 + Run(text, k + 1, Whitespace)
              d == Run(text, j, Digit)
          IN  d >= 1 /\ LitAt(text, j + d, ".")

\* step_pattern.finditer(steps_text) from position from on: the groups
\* (number, content) of each match, in order. After the period \s* takes the
\* whole run of whitespace, newlines included, and .*? grows to the first
\* position where the lookahead holds.
RECURSIVE step_matches(_, _)
step_matches(text, from) ==
    LET Starts == {s \in from..Len(text) : StepMarkerAt(text, s) # <<>>}
    IN  IF Starts = {} THEN <<>>
        ELSE LET m == StepMarkerAt(text, Min(Starts))[1]
                 b == m.after + Run(text, m.after, Whitespace)
                 k == Min({j \in b..(Len(text) + 1) : NextStepAhead(text, j)})
             IN  <<[number |-> SubSeq(text, m.digits, m.after - 2),
                    content |-> SubSeq(text, b, k - 1)]>>
                 \o step_matches(text, k)

\* The positions where ^(Yes:|No:) matches (re.MULTILINE | re.IGNORECASE).
BranchMarkerAt(content, i) ==
    LineStart(content, i) /\ (LitAtI(content, i, "Yes:") \/ LitAtI(content, i, "No:"))

MarkerLen(content, i) == IF LitAtI(content, i, "Yes:") THEN 4 ELSE 3

\* re.split(r"^(Yes:|No:)", step_content, ...) of line 123: the text before
\* the first marker, then each marker and the text after it, alternating.
RECURSIVE yes_no_split(_, _)
yes_no_split(content, from) ==
    LET At == {i \in from..Len(content) : BranchMarkerAt(content, i)}
    IN  IF At = {} THEN <<SubSeq(content, from, Len(content))>>
        ELSE LET i == Min(At)
                 n == MarkerLen(content, i)
             IN  <<SubSeq(content, from, i - 1), SubSeq(content, i, i + n - 1)>>
                 \o yes_no_split(content, i + n)

\* A variant of the loop of lines 129-136 that keeps the first text of each
\* marker type.
RECURSIVE branch_actions_first_wins(_, _, _)
branch_actions_first_wins(parts, i, acc) ==
    IF i > Len(parts) THEN acc
    ELSE LET action_type == lower(strip(parts[i]))
             action_content == strip(parts[i + 1])
         IN  branch_actions_first_wins(parts, i + 2,
                 IF action_type = "yes:" /\ acc.yes_action = None
                 THEN [acc EXCEPT !.yes_action = Some(action_content)]
                 ELSE IF action_type = "no:" /\ acc.no_action = None
                 THEN [acc EXCEPT !.no_action = Some(action_content)]
                 ELSE acc)

\* The loop of lines 129-136 from index i on (Python index i - 1): each pair
\* (marker, text) assigns yes_action or no_action.
RECURSIVE branch_actions(_, _, _)
branch_actions(parts, i, acc) ==
    IF i > Len(parts) THEN acc
    ELSE LET action_type == lower(strip(parts[i]))
             action_content == strip(parts[i + 1])
         IN  branch_actions(parts, i + 2,
                 IF action_type = "yes:"
                 THEN [acc EXCEPT !.yes_action = Some(action_content)]
                 ELSE IF action_type = "no:"
                 THEN [acc EXCEPT !.no_action = Some(action_content)]
                 ELSE acc)

\* re.search of a phrase, an optional opening quote and a run of one or more
\* characters of Class; the run is group 1. The quote is optional and no
\* quote is in Class, so the run starts right after the quote when there is
\* one. ignorecase is the re.IGNORECASE flag.
phrase_capture(content, phrase, Class, ignorecase) ==
    LET Hit(i) == IF ignorecase THEN LitAtI(content, i, phrase)
                                ELSE LitAt(content, i, phrase)
        Arg(i) == LET a == i + Len(phrase)
                  IN  IF a <= Len(content) /\ Ch(content, a) \in OpenQuote
                      THEN a + 1 ELSE a
        At == {i \in 1..Len(content) : Hit(i) /\ Run(content, Arg(i), Class) >= 1}
    IN  IF At = {} THEN None
        ELSE LET a == Arg(Min(At))
             IN  Some(SubSeq(content, a, a + Run(content, a, Class) - 1))

\* Line 140.
continue_step_match(step_content) ==
    phrase_capture(step_content, "continue with step ", Digit, TRUE)

\* Line 144: this search is given no flag.
continue_proc_match(step_content) ==
    phrase_capture(step_content, "Use procedure ", UpperCase \cup Digit, FALSE)

\* Line 148.
ends_procedure_match(step_content) ==
    ContainsI(step_content, "This ends the procedure.")

\* Lines 114-159: the StepDetail of one match.
step_detail(match) ==
    LET step_number == strip(match.number)
        step_content == strip(match.content)
        yes_no_split_parts == yes_no_split(step_content, 1)
        branches == branch_actions(yes_no_split_parts, 2,
                                   [yes_action |-> None, no_action |-> None])
    IN  [step_number |-> step_number,
         instruction |-> IF Len(yes_no_split_parts) > 1
                         THEN strip(yes_no_split_parts[1]) ELSE step_content,
         yes_action |-> branches.yes_action,
         no_action |-> branches.no_action,
         continue_to_step |-> continue_step_match(step_content),
         continue_to_procedure |-> continue_proc_match(step_content),
         ends_procedure |-> ends_procedure_match(step_content)]

parse_steps_from_text(steps_text) ==
    LET matches == step_matches(steps_text, 1)
    IN  [i \in 1..Len(matches) |-> step_detail(matches[i])]

-----------------------------------------------------------------------------
(* parse_procedure_block, lines 164-219. *)

\* The lookahead (?=\n\s*Procedure\s*\n) of line 172 at position k.
HeadingAhead(text, k) ==
    /\ k <= Len(text)
    /\ Ch(text, k) = "\n"
    /\ LET j == k + 1 + Run(text, k + 1, Whitespace)
           e == j + Len("Procedure")
       IN  /\ LitAt(text, j, "Procedure")
           /\ \E x \in e..(e + Run(text, e, Whitespace) - 1) : Ch(text, x) = "\n"

\* ^code\s*\n(.*?) with the lookahead, tried at position s: \s* gives back
\* whitespace until a newline follows it and the lazy group reaches a
\* heading. The first and last position of group 1 plus one, or <<>>.
DescriptionMatchAt(text, code, s) ==
    LET a == s + Len(code)
        Ends(w) == {k \in (a + w + 1)..Len(text) : HeadingAhead(text, k)}
        W == {w \in 0..(Run(text, a, Whitespace) - 1) :
                 Ch(text, a + w) = "\n" /\ Ends(w) # {}}
    IN  IF LineStart(text, s) /\ LitAt(text, s, code) /\ W # {}
        THEN <<[start |-> a + Max(W) + 1, end |-> Min(Ends(Max(W)))]>>
        ELSE <<>>

\* re.search of lines 171-174.
description_match(procedure_text, procedure_code) ==
    LET Starts == {s \in 1..Len(procedure_text) :
                      DescriptionMatchAt(procedure_text, procedure_code, s) # <<>>}
    IN  IF Starts = {} THEN <<>>
        ELSE DescriptionMatchAt(procedure_text, procedure_code, Min(Starts))

\* re.sub(r"^\s*Procedure\s*\n", "", steps_raw_text, 1, re.MULTILINE) of line
\* 183: the first match is removed. The trailing \s* is greedy, so the match
\* ends at the last newline of the whitespace after the word.
remove_heading(steps_raw_text) ==
    LET Word(s) == s + Run(steps_raw_text, s, Whitespace)
        Last(s) == LET e == Word(s) + Len("Procedure")
                   IN  {x \in e..(e + Run(steps_raw_text, e, Whitespace) - 1) :
                           Ch(steps_raw_text, x) = "\n"}
        Starts == {s \in 1..Len(steps_raw_text) :
                      /\ LineStart(steps_raw_text, s)
                      /\ LitAt(steps_raw_text, Word(s), "Procedure")
                      /\ Last(s) # {}}
    IN  IF Starts = {} THEN steps_raw_text
        ELSE SubSeq(steps_raw_text, 1, Min(Starts) - 1)
             \o Suffix(steps_raw_text, Max(Last(Min(Starts))) + 1)

\* Lines 187-191: the text from the first line that starts a step, or "".
from_first_step(steps_raw_text) ==
    LET Starts == {s \in 1..Len(steps_raw_text) :
                      StepMarkerAt(steps_raw_text, s) # <<>>}
    IN  IF Starts = {} THEN "" ELSE Suffix(steps_raw_text, Min(Starts))

\* Lines 166-204: the locals description and steps_raw_text.
segment(procedure_text, procedure_code) ==
    LET m == description_match(procedure_text, procedure_code)
        lines == split(procedure_text, "\n")
    IN  IF m # <<>>
        THEN [description |-> strip(SubSeq(procedure_text, m[1].start, m[1].end - 1)),
              steps_raw_text |->
                  from_first_step(remove_heading(Suffix(procedure_text, m[1].end)))]
        ELSE IF Len(lines) > 1
        THEN [description |-> strip(lines[2]),
              steps_raw_text |-> join(SubSeq(lines, 3, Len(lines)), "\n")]
        ELSE [description |-> "", steps_raw_text |-> ""]

\* Line 212.
title_of(description, procedure_code) ==
    IF description # "" THEN strip(split(description, "\n")[1])
    ELSE "Isolation Procedure " \o procedure_code

\* The function computes description, parsed_steps and title, and then line
\* 215 reads the name code, which is neither a parameter, a local nor a
\* global of the module: building the ProcedureDetail raises NameError. The
\* locals it had computed are kept beside the exception.
parse_procedure_block(procedure_text, procedure_code) ==
    LET seg == segment(procedure_text, procedure_code)
    IN  [kind |-> "raise",
         exception |-> "NameError",
         locals |-> [description |-> seg.description,
                     parsed_steps |-> parse_steps_from_text(seg.steps_raw_text),
                     title |-> title_of(seg.description, procedure_code)]]

-----------------------------------------------------------------------------
(* get_suggested_action, lines 221-262. *)

\* What the rules of lines 232-256 return for one step, or None.
step_suggestion(lower_query, code, step) ==
    LET lower_instruction == lower(step.instruction)
        start == "Based on the issue, start with step " \o step.step_number
                 \o ": '" \o step.instruction \o "'."
        check == "Based on the issue, check step " \o step.step_number
                 \o ": '" \o step.instruction \o "'."
    IN  IF /\ code = "MEXIP01"
           /\ Contains(lower_query, "invalid") \/ Contains(lower_query, "not supported")
           /\ Contains(lower_instruction, "location code")
           /\ step.step_number = "1"
        THEN IF step.no_action # None /\ step.no_action # Some("")
             THEN Some(start \o " If a location code is not available, the recommended action is: '"
                       \o step.no_action[1] \o "'.")
             ELSE Some(start)
        ELSE IF /\ code = "MEXIP02"
                /\ Contains(lower_query, "not detected") \/ Contains(lower_query, "missing")
                /\ Contains(lower_instruction, "required i/o module or enclosure services manager")
                /\ step.step_number = "1"
        THEN IF step.no_action # None /\ step.no_action # Some("")
             THEN Some(start \o " If the module is not detected, follow the instructions for the 'No' case: '"
                       \o step.no_action[1] \o "'.")
             ELSE Some(start)
        ELSE IF /\ code = "MEXIP02"
                /\ Contains(lower_query, "not detected") \/ Contains(lower_query, "missing")
                /\ Contains(lower_instruction, "present and properly seated")
        THEN IF step.no_action # None /\ step.no_action # Some("")
             THEN Some(check \o " If the module is not present or properly seated, the recommended action is: '"
                       \o step.no_action[1] \o "'.")
             ELSE Some(check)
        ELSE IF /\ code = "MEXIP03"
                /\ Contains(lower_query, "power problem")
                /\ Contains(lower_instruction, "verify the following led states")
                /\ step.step_number = "4"
        THEN Some(check \o " You need to verify the LED states on the power supplies.")
        ELSE None

get_suggested_action(query, procedure_details) ==
    LET steps == procedure_details.steps
        Hits == {i \in 1..Len(steps) :
                    step_suggestion(lower(query), procedure_details.code, steps[i]) # None}
    IN  IF Hits # {}
        THEN step_suggestion(lower(query), procedure_details.code, steps[Min(Hits)])
        ELSE IF Len(steps) > 0
        THEN Some("Please review the full procedure starting with step 1: '"
                  \o steps[1].instruction \o "'.")
        ELSE Some("No specific action could be suggested from the query.")

-----------------------------------------------------------------------------
(* search_isolation_procedure, lines 266-340. *)

\* Lines 292-296, in the order of the dict.
error_to_procedure_map ==
    << [keywords |-> {"invalid", "not supported"}, code |-> "MEXIP01"],
       [keywords |-> {"not detected", "missing"}, code |-> "MEXIP02"],
       [keywords |-> {"power problem", "power issue"}, code |-> "MEXIP03"] >>

\* re.search(keywords, query, re.IGNORECASE) of line 301: one of the
\* alternatives occurs in the query.
keywords_match(row, query) == \E k \in row.keywords : ContainsI(query, k)

\* re.match(r"MEXIP\d{2}", query, re.IGNORECASE) of line 308: the query
\* starts with the pattern.
code_match(query) ==
    LitAtI(query, 1, "MEXIP") /\ Run(query, 6, Digit) >= 2

\* Lines 299-310, with the literal check made before the table.
classify_literal_first(query) ==
    LET Rows == {r \in 1..Len(error_to_procedure_map) :
                    keywords_match(error_to_procedure_map[r], query)}
    IN  IF code_match(query) THEN Some(upper(query))
        ELSE IF Rows # {} THEN Some(error_to_procedure_map[Min(Rows)].code)
        ELSE None

\* Lines 299-310: procedure_code_from_query.
classify(query) ==
    LET Rows == {r \in 1..Len(error_to_procedure_map) :
                    keywords_match(error_to_procedure_map[r], query)}
    IN  IF Rows # {} THEN Some(error_to_procedure_map[Min(Rows)].code)
        ELSE IF code_match(query) THEN Some(upper(query))
        ELSE None

Output(original_query, message, found_procedure_code, procedure_details, suggested_action) ==
    [kind |-> "return",
     original_query |-> original_query,
     message |-> message,
     found_procedure_code |-> found_procedure_code,
     procedure_details |-> procedure_details,
     suggested_action |-> suggested_action]

\* Line 273 without the strip().
stripped_query_unstripped(request) ==
    IF request.query = None THEN "" ELSE request.query[1]

\* Line 273: (payload.query or "").strip()
stripped_query(request) ==
    IF request.query = None THEN "" ELSE strip(request.query[1])

\* Lines 285-289.
no_query_response(query) ==
    Output(Some(query),
           "Please provide a procedure code or a description of the error to search.",
           None, None, Some("No query provided."))

\* Lines 336-340.
not_found_response(query) ==
    Output(Some(query),
           "Procedure for query '" \o query \o "' not found or could not be inferred."
           \o " Please try a specific procedure code (e.g., MEXIP01) or a more"
           \o " detailed error description.",
           None, None,
           Some("Could not find a relevant procedure for the given query."))

\* Lines 319-330: an exception of parse_procedure_block leaves the handler.
found_response(query, code, block) ==
    LET procedure_details == parse_procedure_block(block, code)
    IN  IF procedure_details.kind = "raise"
        THEN [kind |-> "raise", exception |-> procedure_details.exception]
        ELSE Output(Some(query),
                    "Procedure '" \o code \o "' found and parsed.",
                    Some(code), Some(procedure_details),
                    get_suggested_action(query, procedure_details))

\* The whole handler on the request received: lines 272-340.
search_isolation_procedure ==
    LET query == stripped_query(payload)
        normalized == normalize_text_for_parsing(payload.text)
        code == IF query = "" THEN None ELSE classify(query)
        block == IF code = None THEN None
                 ELSE find_procedure_block(normalized, code[1])
    IN  /\ payload.kind = "Input"
        /\ response.kind = "none"
        /\ normalized_text' = Some(normalized)
        /\ procedure_code_from_query' = code
        /\ procedure_block_text' = block
        /\ response' = IF query = "" THEN no_query_response(query)
                       ELSE IF block # None /\ block # Some("")
                       THEN found_response(query, code[1], block[1])
                       ELSE not_found_response(query)
        /\ UNCHANGED <<payload, call, ret>>

-----------------------------------------------------------------------------
(* The service. It keeps nothing from one request to the next (every local of
   the handler is built from the payload), so a behaviour is one request: it
   is received, and the handler runs on it. *)

\* All sequences of at most n elements of the set S.
RECURSIVE SeqsUpTo(_, _)
SeqsUpTo(S, n) ==
    IF n = 0 THEN {<<>>}
    ELSE LET P == SeqsUpTo(S, n - 1) IN P \cup {Append(p, x) : p \in P, x \in S}

\* The lines documents are made of: two procedure codes, a description, the
\* heading, a step, a line as PDF extraction leaves it, and a blank line.
DocLines ==
    {"MEXIP01", "MEXIP02", "I/O Module", "Procedure", "1. Check.",
     "  2." \o U00A0 \o " Done.\r", ""}

\* The document of the end-to-end scenario.
ScenarioDoc ==
    "MEXIP01\nI/O Module Issues\nProcedure\n1. Check location code.\n"
    \o "Yes: Proceed to step 2.\nNo: Replace module.\n"
    \o "2. This ends the procedure.\nMEXIP02\n..."

Documents ==
    {join(lines, "\n") : lines \in SeqsUpTo(DocLines, MaxDocLines)} \cup {ScenarioDoc}

HandlerQueries ==
    {None, Some(""), Some("  "), Some("module invalid"), Some("module not detected"),
     Some("MEXIP03"), Some(" mexip01\t"), Some("MEXIP01 block"), Some("unrelated text")}

Idle == [fn |-> "none"]

\* No request has been handled.
HandlerIdle ==
    /\ normalized_text = None
    /\ procedure_code_from_query = None
    /\ procedure_block_text = None
    /\ response = [kind |-> "none"]

Init ==
    /\ \E text \in Documents, q \in HandlerQueries :
           payload = [kind |-> "Input", text |-> text, query |-> q]
    /\ HandlerIdle
    /\ call = Idle
    /\ ret = <<>>

Next == search_isolation_procedure

Spec == Init /\ [][Next]_vars

-----------------------------------------------------------------------------
(* The helper functions under test. *)

\* The characters raw text is drawn from: an ordinary character, a space, a
\* no-break space, a zero-width space, a carriage return and a newline.
RawAlphabet == {"a", " ", U00A0, U200B, "\r", "\n"}

RawTexts == StringsOver(RawAlphabet, MaxRawLen)

InitNormalize ==
    /\ payload = [kind |-> "none"]
    /\ HandlerIdle
    /\ \E s \in RawTexts : call = [fn |-> "normalize_text_for_parsing", text |-> s]
    /\ ret = <<>>

\* normalize_text_for_parsing applied to the text, then to its own result.
ApplyNormalize ==
    /\ call.fn = "normalize_text_for_parsing"
    /\ Len(ret) < MaxApply
    /\ ret' = Append(ret, normalize_text_for_parsing(
                            IF ret = <<>> THEN call.text ELSE ret[Len(ret)]))
    /\ UNCHANGED <<call, handler_vars>>

NextNormalize == ApplyNormalize

SpecNormalize == InitNormalize /\ [][NextNormalize]_vars

\* The words queries are made of, and the queries the contract names.
QueryWords ==
    {"module", "invalid", "not", "supported", "detected", "Missing", "POWER",
     "problem", "MEXIP03", "mexip01"}

ClassifyQueries ==
    {join(words, " ") : words \in SeqsUpTo(QueryWords, MaxQueryWords) \ {<<>>}}
    \cup {"module not detected", "unrelated text", "power issue", "MEXIP1"}

InitClassify ==
    /\ payload = [kind |-> "none"]
    /\ HandlerIdle
    /\ \E q \in ClassifyQueries : call = [fn |-> "classify", query |-> q]
    /\ ret = <<>>

\* Lines 299-310 on a stripped, non-empty query.
ApplyClassify ==
    /\ call.fn = "classify"
    /\ ret = <<>>
    /\ ret' = <<classify(call.query)>>
    /\ UNCHANGED <<call, handler_vars>>

NextClassify == ApplyClassify

SpecClassify == InitClassify /\ [][NextClassify]_vars

\* The lines steps regions are made of.
StepLines ==
    {"1. Check.", "1.", "2. THIS ENDS THE PROCEDURE.", "2.",
     "Yes: Go on.", "No: Use procedure MEXIP02", "yes: use procedure 'MEXIP03'",
     "no: CONTINUE WITH STEP 2", "and wait."}

InitSteps ==
    /\ payload = [kind |-> "none"]
    /\ HandlerIdle
    /\ \E lines \in SeqsUpTo(StepLines, MaxStepLines) :
           call = [fn |-> "parse_steps_from_text", lines |-> lines,
                   steps_text |-> join(lines, "\n")]
    /\ ret = <<>>

ApplySteps ==
    /\ call.fn = "parse_steps_from_text"
    /\ ret = <<>>
    /\ ret' = <<parse_steps_from_text(call.steps_text)>>
    /\ UNCHANGED <<call, handler_vars>>

NextSteps == ApplySteps

SpecSteps == InitSteps /\ [][NextSteps]_vars

-----------------------------------------------------------------------------
(* The contract of the handler, checked under Spec. *)

Handled == response.kind # "none"

\* The query is absent, empty or made of whitespace only.
BlankQuery ==
    \/ payload.query = None
    \/ \A i \in 1..Len(payload.query[1]) : Ch(payload.query[1], i) \in Whitespace

\* The query resolved to an identifier that occurs in the normalized document.
ResolvedAndPresent ==
    /\ procedure_code_from_query # None
    /\ Contains(normalized_text[1], procedure_code_from_query[1])

\* C1: every request with a text and any query, or none, ends in an Output
\* whose message carries the outcome; the handler never raises.
C1_AlwaysReturnsOutput ==
    Handled => response.kind = "return" /\ response.message # ""

\* C2: when the query resolves to an identifier that occurs in the normalized
\* document, the response names that identifier and carries the parsed
\* procedure and a suggestion; for the scenario document and the query
\* "module invalid" it has the description, the two steps and the suggestion
\* of the scenario.
C2_FoundResponse ==
    (Handled /\ ResolvedAndPresent) =>
        /\ response.kind = "return"
        /\ response.found_procedure_code = procedure_code_from_query
        /\ response.procedure_details # None
        /\ response.procedure_details[1].code = procedure_code_from_query[1]
        /\ response.suggested_action # None
        /\ (payload.text = ScenarioDoc /\ payload.query = Some("module invalid")) =>
              LET details == response.procedure_details[1]
              IN  /\ details.description = "I/O Module Issues"
                  /\ Len(details.steps) = 2
                  /\ details.steps[1].yes_action = Some("Proceed to step 2.")
                  /\ details.steps[1].no_action = Some("Replace module.")
                  /\ details.steps[2].ends_procedure
                  /\ Contains(response.suggested_action[1], "Replace module.")

\* The first position of a line after position i that begins with 3 or more
\* upper-case letters followed by 2 or more digits, as a set of at most one.
NextCodeLine(text, i) ==
    LET At == {p \in (i + 1)..Len(text) :
                  /\ Ch(text, p - 1) = "\n"
                  /\ Run(text, p, UpperCase) >= 3
                  /\ Run(text, p + Run(text, p, UpperCase), Digit) >= 2}
    IN  IF At = {} THEN {} ELSE {Min(At)}

\* C5: when the resolved code occurs in the normalized document, the block
\* is the non-empty span from its first occurrence to just before the next
\* line that begins with a procedure code, or to the end of the document;
\* when it does not occur, there is no block.
C5_BlockEndsBeforeNextCode ==
    (Handled /\ procedure_code_from_query # None) =>
        LET text == normalized_text[1]
            code == procedure_code_from_query[1]
            At == {i \in 1..Len(text) : LitAt(text, i, code)}
        IN  IF At = {} THEN procedure_block_text = None
            ELSE LET i == Min(At)
                     B == NextCodeLine(text, i)
                     last == IF B = {} THEN Len(text) ELSE Min(B) - 2
                 IN  /\ procedure_block_text # None
                     /\ procedure_block_text[1] # ""
                     /\ procedure_block_text[1] = strip(SubSeq(text, i, last))

\* C8: a blank query gets the prompt and "No query provided." whatever the
\* document; a query that resolves to nothing, or to an identifier that is not
\* in the normalized document, gets the not-found message and the generic
\* suggestion; and without a located block the response names no procedure
\* and carries no details.
C8_NotFoundResponses ==
    Handled =>
        /\ BlankQuery =>
              /\ response.kind = "return"
              /\ response.message =
                     "Please provide a procedure code or a description of the error to search."
              /\ response.suggested_action = Some("No query provided.")
        /\ (~BlankQuery /\ ~ResolvedAndPresent) =>
              /\ response.kind = "return"
              /\ Contains(response.message, "not found or could not be inferred")
              /\ response.suggested_action =
                     Some("Could not find a relevant procedure for the given query.")
        /\ procedure_block_text = None =>
              /\ response.kind = "return"
              /\ response.found_procedure_code = None
              /\ response.procedure_details = None

\* A query that resolves to a code the document does not hold, answered with
\* the fallback.
C8_Witness ==
    /\ payload.query = Some("MEXIP03")
    /\ Contains(payload.text, "MEXIP01")
    /\ procedure_code_from_query = Some("MEXIP03")
    /\ procedure_block_text = None
    /\ response.kind = "return"
    /\ response.suggested_action =
           Some("Could not find a relevant procedure for the given query.")

-----------------------------------------------------------------------------
(* Query classification, checked under SpecClassify. *)

Classified == call.fn = "classify" /\ ret # <<>>

\* The keyword table of the contract, in its order.
KeywordTable ==
    << <<{"invalid", "not supported"}, "MEXIP01">>,
       <<{"not detected", "missing"}, "MEXIP02">>,
       <<{"power problem", "power issue"}, "MEXIP03">> >>

\* Row r matches the query, whatever the case of its letters.
RowHit(r, query) == \E k \in KeywordTable[r][1] : Contains(lower(query), k)

\* The query starts with MEXIP and two digits, in any case.
LiteralCode(query) ==
    /\ Len(query) >= 7
    /\ lower(SubSeq(query, 1, 5)) = "mexip"
    /\ Ch(query, 6) \in Digit
    /\ Ch(query, 7) \in Digit

\* C3: the result is the identifier of the first row of the table, in table
\* order, that matches the query case-insensitively; the literal check counts
\* only when no row matches; when neither applies the result is none.
C3_ClassifyTableOrder ==
    Classified =>
        LET query == call.query
            Hits == {r \in 1..Len(KeywordTable) : RowHit(r, query)}
        IN  /\ Hits # {} => ret[1] = Some(KeywordTable[Min(Hits)][2])
            /\ (Hits = {} /\ LiteralCode(query)) => ret[1] # None
            /\ (Hits = {} /\ ~LiteralCode(query)) => ret[1] = None
            /\ query = "module not detected" => ret[1] = Some("MEXIP02")
            /\ query = "MEXIP03" => ret[1] = Some("MEXIP03")
            /\ query = "unrelated text" => ret[1] = None

\* A query that matches the second and the first row and starts with a
\* literal code, resolved to the first row's identifier.
C3_Witness ==
    /\ Classified
    /\ call.query = "MEXIP03 Missing invalid"
    /\ ret[1] = Some("MEXIP01")

\* Upper-case letters followed by digits, and nothing else.
IsProcedureIdentifier(s) ==
    LET u == Run(s, 1, UpperCase)
        d == Run(s, u + 1, Digit)
    IN  u >= 1 /\ d >= 1 /\ u + d = Len(s)

\* C4: the classification is none or a procedure identifier: upper-case
\* letters followed by digits, with nothing after them.
C4_ResultIsIdentifier ==
    (Classified /\ ret[1] # None) => IsProcedureIdentifier(ret[1][1])

-----------------------------------------------------------------------------
(* The step parser, checked under SpecSteps. *)

Parsed == call.fn = "parse_steps_from_text" /\ ret # <<>>

\* A line of the region that starts a step: its first character is a digit.
IsStepLine(line) == Len(line) >= 1 /\ Ch(line, 1) \in Digit

IsYesLine(line) == Len(line) >= 4 /\ lower(SubSeq(line, 1, 4)) = "yes:"
IsNoLine(line) == Len(line) >= 3 /\ lower(SubSeq(line, 1, 3)) = "no:"
IsBranchLine(line) == IsYesLine(line) \/ IsNoLine(line)

Numerals == "123456789"

\* The region is made of numbered steps 1..N, ascending and contiguous, the
\* first line starting step 1.
WellFormedSteps(lines) ==
    LET StepAt == {j \in 1..Len(lines) : IsStepLine(lines[j])}
    IN  /\ StepAt # {} => 1 \in StepAt
        /\ \A j \in StepAt :
               LET k == Cardinality({x \in StepAt : x <= j})
               IN  LitAt(lines[j], 1, Ch(Numerals, k) \o ".")

\* C6: a region of N well-formed numbered steps gives exactly N entries, in
\* order, the k-th with step_number k, also when a step has no text after its
\* marker; a region with no step marker gives the empty sequence.
C6_OneEntryPerStep ==
    (Parsed /\ WellFormedSteps(call.lines)) =>
        LET N == Cardinality({j \in 1..Len(call.lines) : IsStepLine(call.lines[j])})
        IN  /\ Len(ret[1]) = N
            /\ \A k \in 1..N : ret[1][k].step_number = Ch(Numerals, k)

\* The region is one chunk: its first line starts a step and no other does.
OneChunk(lines) ==
    /\ Len(lines) >= 1
    /\ IsStepLine(lines[1])
    /\ \A j \in 2..Len(lines) : ~IsStepLine(lines[j])

\* The text a branch line introduces: what follows its marker, and the lines
\* after it up to the next branch line.
BranchText(lines, j) ==
    LET Later == {x \in (j + 1)..Len(lines) : IsBranchLine(lines[x])}
        last == IF Later = {} THEN Len(lines) ELSE Min(Later) - 1
        n == IF IsYesLine(lines[j]) THEN 4 ELSE 3
    IN  strip(join(<<Suffix(lines[j], n + 1)>> \o SubSeq(lines, j + 1, last), "\n"))

\* The text of the chunk before its first branch line, without the number
\* marker.
InstructionText(lines) ==
    LET Branch == {x \in 2..Len(lines) : IsBranchLine(lines[x])}
        last == IF Branch = {} THEN Len(lines) ELSE Min(Branch) - 1
    IN  strip(join(<<Suffix(lines[1], 3)>> \o SubSeq(lines, 2, last), "\n"))

YesLines(lines) == {j \in 2..Len(lines) : IsYesLine(lines[j])}
NoLines(lines) == {j \in 2..Len(lines) : IsNoLine(lines[j])}

\* C9 as stated: the first occurrence of a repeated marker is authoritative,
\* so the branch field starts with the text the first occurrence introduces;
\* and the instruction is the text before the first marker.
C9_FirstMarkerAuthoritative ==
    (Parsed /\ OneChunk(call.lines)) =>
        LET lines == call.lines
            step == ret[1][1]
        IN  /\ Len(ret[1]) = 1
            /\ step.instruction = InstructionText(lines)
            /\ IF YesLines(lines) = {} THEN step.yes_action = None
               ELSE /\ step.yes_action # None
                    /\ LitAt(step.yes_action[1], 1, BranchText(lines, Min(YesLines(lines))))
            /\ IF NoLines(lines) = {} THEN step.no_action = None
               ELSE /\ step.no_action # None
                    /\ LitAt(step.no_action[1], 1, BranchText(lines, Min(NoLines(lines))))

\* C9 as amended: the last occurrence of a marker is authoritative: the
\* branch field holds the text from the last line with that marker up to the
\* next marker or the end of the chunk, and the text of an earlier occurrence
\* is dropped. With each marker once, in either order, the fields hold their
\* texts, and the instruction is the text before the first marker.
C9_LastMarkerAuthoritative ==
    (Parsed /\ OneChunk(call.lines)) =>
        LET lines == call.lines
            step == ret[1][1]
        IN  /\ Len(ret[1]) = 1
            /\ step.instruction = InstructionText(lines)
            /\ step.yes_action =
                   IF YesLines(lines) = {} THEN None
                   ELSE Some(BranchText(lines, Max(YesLines(lines))))
            /\ step.no_action =
                   IF NoLines(lines) = {} THEN None
                   ELSE Some(BranchText(lines, Max(NoLines(lines))))

\* A chunk with two Yes: lines, parsed: the second one's text is the branch.
C9_Witness ==
    /\ Parsed
    /\ call.lines = <<"1. Check.", "Yes: Go on.", "yes: use procedure 'MEXIP03'">>
    /\ ret[1][1].instruction = "Check."
    /\ ret[1][1].yes_action = Some("use procedure 'MEXIP03'")

\* The line names the procedure code after "use procedure", in any case,
\* quoted or not.
UsesProcedure(line, code) ==
    \/ ContainsI(line, "use procedure " \o code)
    \/ ContainsI(line, "use procedure '" \o code \o "'")

\* C10: in a chunk that says "use procedure <code>" once, in any letter
\* case, continue_to_procedure is that code; "continue with step N" in any
\* case sets continue_to_step, and "this ends the procedure." in any case
\* sets ends_procedure.
C10_UseProcedureAnyCase ==
    (Parsed /\ OneChunk(call.lines)) =>
        LET lines == call.lines
            step == ret[1][1]
            Mentions == {j \in 1..Len(lines) : ContainsI(lines[j], "use procedure")}
        IN  /\ \A code \in {"MEXIP02", "MEXIP03"} :
                   (/\ Cardinality(Mentions) = 1
                    /\ \E j \in Mentions : UsesProcedure(lines[j], code))
                   => step.continue_to_procedure = Some(code)
            /\ (\E j \in 1..Len(lines) : ContainsI(lines[j], "continue with step 2"))
                   => step.continue_to_step = Some("2")
            /\ (\E j \in 1..Len(lines) : ContainsI(lines[j], "this ends the procedure."))
                   => step.ends_procedure

-----------------------------------------------------------------------------
(* The normalizer, checked under SpecNormalize. *)

\* C7: normalize_text_for_parsing is idempotent: applied to its own result,
\* it returns that result unchanged.
C7_NormalizeIdempotent ==
    call.fn = "normalize_text_for_parsing" =>
        \A i \in 2..Len(ret) : ret[i] = ret[1]

\* The text had a zero-width space, a no-break space and a blank line to
\* clean, and the function has been applied twice.
C7_Witness ==
    /\ call.fn = "normalize_text_for_parsing"
    /\ Len(ret) >= 2
    /\ call.text = U200B \o "a" \o U00A0 \o "\n"
    /\ ret[1] = "a"

=============================================================================
